---- MODULE Spec2Model ----
(***************************************************************************)
(* LumenAI realtime communication and session-resilience layer.            *)
(*                                                                         *)
(*  - AuthSpec: the resilient request pipeline of lib/apiClient.ts (the    *)
(*    axios response interceptor with its module-level isRefreshing flag   *)
(*    and refreshSubscribers queue) together with the credential store of  *)
(*    store/authStore.ts (logout, refreshAccessToken, checkAuth).          *)
(*  - ChatSpec: the stream session coordinator (useStreamingChat) layered  *)
(*    on the connection manager (useWebSocket).                            *)
(*                                                                         *)
(* JavaScript is single-threaded: one action is one run-to-completion      *)
(* step (a user call, a network event, a timer, a React commit) together   *)
(* with the promise continuations it wakes.                                *)
(***************************************************************************)
EXTENDS Integers, Sequences, FiniteSets, TLC

\* ------------------------------------------------------------------ bounds
\* requests (of every kind) ever created through apiClient
MaxReq == 5
\* calls made by the application: authenticated requests, checkAuth(),
\* logout()
MaxCalls == 2
\* inbound socket messages delivered, on a stable connection (ChatSpec)
MaxEvents == 4
\* inbound socket messages delivered, with the connection changing (ConnSpec)
MaxWireEvents == 2
\* WebSocket objects ever created
MaxSockets == 2
\* WebSocket objects ever created, with reconnections only (ReconnSpec)
MaxReconnSockets == 12
\* send() calls made directly (WsSpec)
MaxSends == 2
\* listener registrations held at once (BusSpec)
MaxSubscriptions == 3
\* inbound socket messages delivered to the listeners (BusSpec)
MaxBusEvents == 1
\* lines of the body of a /chat/stream response (HttpSpec)
MaxLines == 3
\* sendMessage() and clearMessages() calls
MaxUserCalls == 1
\* subscribe() calls made by components whose returned functions are kept
MaxSubscribeCalls == 2
\* subscribe() calls made while the hook is disconnected
MaxOfflineSubscriptions == 1
\* calls of one returned unsubscribe function
MaxUnsubscribeCalls == 2

\* ------------------------------------------------------- program constants
\* useStreamingChat passes maxReconnectAttempts: 10 to useWebSocket
maxReconnectAttempts == 10

VARIABLES
    \* ---- store/authStore.ts (zustand state)
    user,               \* 0 = null, 1 = a user record
    accessToken,        \* 0 = null, n > 0 = the n-th token issued by the server
    refreshToken,       \* 0 = null, 1 = a refresh token
    isAuthenticated,
    \* ---- lib/apiClient.ts (module-level state)
    isRefreshing,
    refreshSubscribers, \* sequence of request ids whose continuation is queued
    \* ---- axios requests created through apiClient, by id 1..Len(requests)
    requests,
    \* ---- the server's token counter (environment)
    issued,
    \* ---- calls made by the application so far
    nCalls

VARIABLES
    \* ---- useWebSocket (connection manager)
    state,                  \* the WebSocketState record
    wsRef,                  \* 0 = null, else the id of a socket
    sockets,                \* readyState of every WebSocket created, by id
    reconnectTimeoutRef,    \* 0 = null, else the id of a timeout
    timeouts,               \* pending setTimeout callbacks (ids)
    heartbeatIntervalRef,   \* 0 = null, else the id of an interval
    intervals,              \* running setInterval timers (ids)
    messageHandlersRef,     \* the registered (type, handler) pairs
    outbox,                 \* messages written to a socket by send(): the
                            \* message number and the socket
    \* ---- useStreamingChat (stream session coordinator)
    messages,
    isTyping,
    currentStreamId,
    streamingMessageRef,
    completeCalls,          \* arguments of the onStreamComplete calls
    errorCalls,             \* number of onError calls
    \* ---- history of the run (environment)
    nEvents,                \* inbound messages delivered so far
    started,                \* stream ids the server has used in a start
    run,                    \* the delivered events as one stream, see Track
    drop,                   \* the stream cut by an unclean close: its id and
                            \* text then, whether a socket has opened since
                            \* (reopened) and a chunk of it come after (late)
    nUserCalls,             \* sendMessage() and clearMessages() calls so far
    returns,                \* by message number, what the send() /
                            \* sendMessage() call returned (ok) and whether
                            \* the current socket was open then (open)
    calls,                  \* the calls the plain listeners received for the
                            \* last inbound message, in order
    dropped,                \* the malformed payloads received: for each, the
                            \* number of messages delivered before it
    unsubs                  \* the functions returned by the subscribe() calls
                            \* of the components, in call order: the type
                            \* and handler each one captured, how many times
                            \* it was called, and whether the hook was
                            \* disconnected (offline) when it was returned

VARIABLES
    \* ---- StreamingChatBox.tsx (chunked-HTTP streaming)
    controller,             \* StreamingChatManager.controller: 0 = null,
                            \* else the id of an AbortController
    aborted,                \* the AbortControllers whose abort() was called
    stream                  \* the streamChatResponse call: its position
                            \* (phase), the signal given to fetch, the
                            \* response body (payload) and what of it is
                            \* still to be read (rest), fullResponse, and
                            \* the callbacks called so far (calls)

httpVars == <<controller, aborted, stream>>

VARIABLES
    \* ---- useChatStore (the zustand chat store over socket.io)
    chatStore               \* messages, isTyping, isConnected; socket: "null",
                            \* or a Socket "disconnected" or "connected";
                            \* emitted: the 'message' events emitted; fetches:
                            \* the POST /api/v1/chat calls not settled;
                            \* sent: the sendMessage calls made

connVars == <<state, wsRef, sockets, reconnectTimeoutRef, timeouts,
              heartbeatIntervalRef, intervals, messageHandlersRef, outbox>>
chatVars == <<messages, isTyping, currentStreamId, streamingMessageRef,
              completeCalls, errorCalls>>
histVars == <<nEvents, started, run, drop, nUserCalls, returns, calls,
              dropped, unsubs>>

authVars == <<user, accessToken, refreshToken, isAuthenticated,
              isRefreshing, refreshSubscribers, requests, issued, nCalls>>

\* ===================================================================
\*  Resilient request pipeline (apiClient.ts) and credential store
\* ===================================================================

\* Request kinds: the continuation awaiting the request's promise.
\*   "api"      an application call, nothing of the pipeline awaits it
\*   "profile1" api.auth.getProfile() of checkAuth, first attempt
\*   "profile2" api.auth.getProfile() of checkAuth, after its own refresh
\*   "refresh"  api.auth.refreshToken() issued by refreshAccessToken();
\*              owner = 0: called by checkAuth, owner = q > 0: called by
\*              the response interceptor handling request q
\*   "logout"   api.auth.logout(), fire-and-forget
Kinds == {"api", "profile1", "profile2", "refresh", "logout"}

\* "sent": on the wire; "queued": its continuation waits in
\* refreshSubscribers; "refreshing": its interceptor awaits
\* refreshAccessToken(); "ok" / "rejected": its promise has settled.
ReqStates == {"sent", "queued", "refreshing", "ok", "rejected"}

\* The pipeline and the store as one value, so that the handlers can be
\* written as functions of it.
AuthState ==
    [user |-> user, accessToken |-> accessToken, refreshToken |-> refreshToken,
     isAuthenticated |-> isAuthenticated, isRefreshing |-> isRefreshing,
     refreshSubscribers |-> refreshSubscribers, requests |-> requests,
     issued |-> issued]

\* apiClient(config) for a new request.  The request interceptor runs in a
\* later microtask and attaches the access token the store holds then.
NewRequest(S, kind, owner) ==
    [S EXCEPT !.requests = Append(@,
        [kind |-> kind, owner |-> owner, retry |-> FALSE, st |-> "sent",
         hdr |-> S.accessToken, sends |-> 1])]

\* apiClient(originalRequest): the request goes out again; the request
\* interceptor overwrites the Authorization header only when the store holds
\* a token.
Resubmit(S, q) ==
    [S EXCEPT !.requests[q].st = "sent",
              !.requests[q].sends = @ + 1,
              !.requests[q].hdr =
                  IF S.accessToken # 0 THEN S.accessToken ELSE @]

\* authStore.logout(): fires api.auth.logout() and clears the credentials
\* in the same synchronous block, so the logout request leaves without a
\* token.
logout(S) ==
    NewRequest([S EXCEPT !.user = 0, !.accessToken = 0, !.refreshToken = 0,
                         !.isAuthenticated = FALSE],
               "logout", 0)

\* refreshAccessToken() up to its await: null without a refresh token
\* (nothing is sent), otherwise the refresh request is created.
CanRefresh(S) == S.refreshToken # 0

\* onTokenRefreshed(token): every queued continuation sets its header and
\* resubmits its request; the queue is emptied.
RECURSIVE WakeAll(_, _)
WakeAll(S, subs) ==
    IF subs = << >> THEN [S EXCEPT !.refreshSubscribers = << >>]
    ELSE WakeAll(Resubmit(S, Head(subs)), Tail(subs))

onTokenRefreshed(S) == WakeAll(S, S.refreshSubscribers)

\* The promise of request q is fulfilled (a 2xx response reached the caller).
Fulfil(S, q) ==
    LET k  == S.requests[q].kind
        S1 == [S EXCEPT !.requests[q].st = "ok"]
    IN  CASE k \in {"api", "logout"} -> S1
          [] k \in {"profile1", "profile2"} ->
                \* checkAuth: set({user: userData, isAuthenticated: true})
                [S1 EXCEPT !.user = 1, !.isAuthenticated = TRUE]
          [] k = "refresh" ->
                \* refreshAccessToken: set({accessToken: newAccessToken})
                LET t  == S.issued + 1
                    S2 == [S1 EXCEPT !.accessToken = t, !.issued = t]
                    o  == S.requests[q].owner
                IN  IF o = 0
                    THEN \* checkAuth: refresh successful, try again
                         NewRequest(S2, "profile2", 0)
                    ELSE \* interceptor of o: wake the queue, retry o,
                         \* finally isRefreshing = false
                         [Resubmit(onTokenRefreshed(S2), o)
                             EXCEPT !.isRefreshing = FALSE]

\* The promise of request q is rejected.
RECURSIVE Reject(_, _)
Reject(S, q) ==
    LET k  == S.requests[q].kind
        S1 == [S EXCEPT !.requests[q].st = "rejected"]
    IN  CASE k \in {"api", "logout"} -> S1
          [] k = "profile1" ->
                \* checkAuth catch: await get().refreshAccessToken()
                IF CanRefresh(S1) THEN NewRequest(S1, "refresh", 0)
                ELSE logout(S1)
          [] k = "profile2" -> logout(S1)
          [] k = "refresh" ->
                \* refreshAccessToken catch: get().logout(); return null
                LET S2 == logout(S1)
                    o  == S.requests[q].owner
                IN  IF o = 0
                    THEN logout(S2)          \* checkAuth: else logout()
                    ELSE \* interceptor of o: else logout(); reject(error);
                         \* finally isRefreshing = false
                         Reject([logout(S2) EXCEPT !.isRefreshing = FALSE], o)

\* Handle401 without the isRefreshing guard: every 401 starts a refresh.
Handle401_NoGuard(S, q) ==
    IF ~S.requests[q].retry
    THEN LET S1 == [S EXCEPT !.requests[q].retry = TRUE]
         IN  IF S1.refreshToken = 0
             THEN Reject(logout(S1), q)
             ELSE NewRequest([S1 EXCEPT !.isRefreshing = TRUE,
                                        !.requests[q].st = "refreshing"],
                             "refresh", q)
    ELSE Reject(S, q)

\* Handle401 that fails the request without logout() when no refresh token
\* is stored.
Handle401_NoLogout(S, q) ==
    IF ~S.requests[q].retry
    THEN LET S1 == [S EXCEPT !.requests[q].retry = TRUE]
         IN  IF S1.refreshToken = 0
             THEN Reject(S1, q)
             ELSE IF S1.isRefreshing
             THEN [S1 EXCEPT !.requests[q].st = "queued",
                             !.refreshSubscribers = Append(@, q)]
             ELSE NewRequest([S1 EXCEPT !.isRefreshing = TRUE,
                                        !.requests[q].st = "refreshing"],
                             "refresh", q)
    ELSE Reject(S, q)

\* Handle401 that does not mark the request as retried.
Handle401_NoRetryMark(S, q) ==
    IF S.refreshToken = 0
    THEN Reject(logout(S), q)
    ELSE IF S.isRefreshing
    THEN [S EXCEPT !.requests[q].st = "queued",
                   !.refreshSubscribers = Append(@, q)]
    ELSE NewRequest([S EXCEPT !.isRefreshing = TRUE,
                              !.requests[q].st = "refreshing"],
                    "refresh", q)

\* The error handler of the response interceptor for a 401 on request q.
Handle401(S, q) ==
    IF ~S.requests[q].retry
    THEN LET S1 == [S EXCEPT !.requests[q].retry = TRUE]
         IN  IF S1.refreshToken = 0
             THEN Reject(logout(S1), q)
             ELSE IF S1.isRefreshing
             THEN \* subscribeTokenRefresh(cb); the returned promise pends
                  [S1 EXCEPT !.requests[q].st = "queued",
                             !.refreshSubscribers = Append(@, q)]
             ELSE \* isRefreshing = true; await refreshAccessToken()
                  NewRequest([S1 EXCEPT !.isRefreshing = TRUE,
                                        !.requests[q].st = "refreshing"],
                             "refresh", q)
    ELSE Reject(S, q)

\* The step leads to state S (within the bound on requests).
Becomes(S) ==
    /\ Len(S.requests) <= MaxReq
    /\ user' = S.user
    /\ accessToken' = S.accessToken
    /\ refreshToken' = S.refreshToken
    /\ isAuthenticated' = S.isAuthenticated
    /\ isRefreshing' = S.isRefreshing
    /\ refreshSubscribers' = S.refreshSubscribers
    /\ requests' = S.requests
    /\ issued' = S.issued
    /\ UNCHANGED <<connVars, chatVars, histVars, httpVars, chatStore>>

\* A network event: the application makes no call.
Answered(S) == Becomes(S) /\ UNCHANGED nCalls

OfKind(k) == {q \in 1..Len(requests) : requests[q].kind = k}

Sent == {q \in 1..Len(requests) : requests[q].st = "sent"}

\* The application makes one more call.
Called == nCalls < MaxCalls /\ nCalls' = nCalls + 1

\* An application component calls an authenticated endpoint.
ApiCall ==
    /\ Called
    /\ Becomes(NewRequest(AuthState, "api", 0))

\* checkAuth() up to its first await.
checkAuth ==
    /\ Called
    /\ IF accessToken = 0 \/ user = 0
       THEN Becomes([AuthState EXCEPT !.isAuthenticated = FALSE])
       ELSE Becomes(NewRequest(AuthState, "profile1", 0))

\* The user logs out.
UserLogout ==
    /\ Called
    /\ Becomes(logout(AuthState))

\* The server answers request q with a 2xx status.
Respond2xx == \E q \in Sent : Answered(Fulfil(AuthState, q))

\* The server answers request q with 401.
Respond401 == \E q \in Sent : Answered(Handle401(AuthState, q))

\* Request q fails otherwise (5xx, network error, timeout): the interceptor
\* passes the error on.
RespondError == \E q \in Sent : Answered(Reject(AuthState, q))

\* ===================================================================
\*  Connection manager (useWebSocket)
\* ===================================================================

\* WebSocket.readyState
ReadyStates == {"CONNECTING", "OPEN", "CLOSING", "CLOSED"}

\* new WebSocket(wsUrl); opened: the connection has been established
NewSocket == [readyState |-> "CONNECTING", opened |-> FALSE]

\* The state of useState<WebSocketState> at the first render.
InitialState ==
    [isConnected |-> FALSE, isConnecting |-> FALSE, error |-> FALSE,
     connectionId |-> 0, reconnectAttempts |-> 0]

\* connect is created once (its useCallback dependencies never change), so
\* the `state` its handlers read is the one of the first render.
CapturedState == InitialState

\* The connection manager as one value.
ConnState ==
    [state |-> state, wsRef |-> wsRef, sockets |-> sockets,
     reconnectTimeoutRef |-> reconnectTimeoutRef, timeouts |-> timeouts,
     heartbeatIntervalRef |-> heartbeatIntervalRef, intervals |-> intervals]

\* connect(): returns at once when the current socket is open; otherwise
\* creates a WebSocket and stores it in wsRef.
connect(K) ==
    IF K.wsRef # 0 /\ K.sockets[K.wsRef].readyState = "OPEN"
    THEN K
    ELSE [K EXCEPT !.state.isConnecting = TRUE,
                   !.state.error = FALSE,
                   !.sockets = Append(@, NewSocket),
                   !.wsRef = Len(K.sockets) + 1]

\* ws.onopen of socket w; the interval takes the id of its socket.
onopen(K, w) ==
    [K EXCEPT !.sockets[w] = [readyState |-> "OPEN", opened |-> TRUE],
              !.state.isConnected = TRUE,
              !.state.isConnecting = FALSE,
              !.state.error = FALSE,
              !.state.reconnectAttempts = 0,
              !.intervals = @ \cup {w},
              !.heartbeatIntervalRef = w]

\* ws.onclose of socket w; the timeout takes the id of its socket.
onclose(K, w, wasClean) ==
    LET K1 == [K EXCEPT !.sockets[w].readyState = "CLOSED",
                        !.state.isConnected = FALSE,
                        !.state.isConnecting = FALSE,
                        !.state.connectionId = 0,
                        !.intervals = @ \ {K.heartbeatIntervalRef},
                        !.heartbeatIntervalRef = 0]
    IN  IF ~wasClean /\ CapturedState.reconnectAttempts < maxReconnectAttempts
        THEN [K1 EXCEPT !.timeouts = @ \cup {w},
                        !.reconnectTimeoutRef = w]
        ELSE K1

\* The reconnection timeout t fires.
onTimeout(K, t) ==
    connect([K EXCEPT !.timeouts = @ \ {t},
                      !.state.reconnectAttempts = @ + 1])

\* ws.onerror
onerror(K) ==
    [K EXCEPT !.state.error = TRUE, !.state.isConnecting = FALSE]

\* ws.close()
close(ws) ==
    IF ws.readyState \in {"CONNECTING", "OPEN"}
    THEN [ws EXCEPT !.readyState = "CLOSING"] ELSE ws

\* disconnect()
disconnect(K) ==
    [K EXCEPT !.timeouts = @ \ {K.reconnectTimeoutRef},
              !.reconnectTimeoutRef = 0,
              !.intervals = @ \ {K.heartbeatIntervalRef},
              !.heartbeatIntervalRef = 0,
              !.sockets = [w \in DOMAIN @ |->
                              IF w = K.wsRef THEN close(@[w]) ELSE @[w]],
              !.wsRef = 0,
              !.state = InitialState]

\* send(message): whether the message can be written to the current socket.
CanSend == wsRef # 0 /\ sockets[wsRef].readyState = "OPEN"

\* send(message) that keeps the message for later when the socket is not open.
send_Queues(msg, throws) ==
    IF throws THEN [ok |-> FALSE, outbox |-> outbox]
    ELSE [ok |-> CanSend,
          outbox |-> Append(outbox, [msg |-> msg, socket |-> wsRef])]

\* send(message): the value returned and the messages written.  throws:
\* JSON.stringify or ws.send raises, which the catch turns into false.
send(msg, throws) ==
    IF ~CanSend THEN [ok |-> FALSE, outbox |-> outbox]
    ELSE IF throws THEN [ok |-> FALSE, outbox |-> outbox]
    ELSE [ok |-> TRUE,
          outbox |-> Append(outbox, [msg |-> msg, socket |-> wsRef])]

\* ===================================================================
\*  Stream session coordinator (useStreamingChat)
\* ===================================================================

StreamIds == {"s1", "s2"}
Tokens == {"a", "b"}
Null == "null"

\* streamingMessageRef.current = null
NoMessage == [id |-> Null, content |-> << >>, isStreaming |-> FALSE]

\* The coordinator as one value.
ChatState ==
    [messages |-> messages, isTyping |-> isTyping,
     currentStreamId |-> currentStreamId,
     streamingMessageRef |-> streamingMessageRef,
     completeCalls |-> completeCalls, errorCalls |-> errorCalls]

\* An element of `messages`.  shared = TRUE: the array holds the very object
\* streamingMessageRef.current points to, so a write through the ref shows
\* in the array; {...msg} copies are not shared.
Message(id, role, content, streaming, shared) ==
    [id |-> id, role |-> role, content |-> content, isStreaming |-> streaming,
     error |-> FALSE, shared |-> shared]

\* prev.map(msg => ...) is written [i \in DOMAIN @ |-> Upd(@[i])] below; state
\* updaters are applied in call order.

Unshare(m) == [m EXCEPT !.shared = FALSE]

\* handleStreamStart
handleStreamStart(C, data) ==
    [C EXCEPT !.currentStreamId = data.stream_id,
              !.isTyping = TRUE,
              !.streamingMessageRef =
                  [id |-> data.stream_id, content |-> << >>, isStreaming |-> TRUE],
              !.messages = Append([i \in DOMAIN @ |-> Unshare(@[i])],
                  Message(data.stream_id, "assistant", << >>, TRUE, TRUE))]

\* handleStreamChunk that appends to the ref but never updates the list.
handleStreamChunk_RefOnly(C, data, captured) ==
    IF data.stream_id # captured THEN C
    ELSE IF C.streamingMessageRef = NoMessage THEN C
    ELSE [C EXCEPT !.streamingMessageRef.content = @ \o <<data.content>>]

\* handleStreamChunk, created when currentStreamId was `captured`
handleStreamChunk(C, data, captured) ==
    IF data.stream_id # captured THEN C
    ELSE IF C.streamingMessageRef = NoMessage THEN C
    ELSE LET text == C.streamingMessageRef.content \o <<data.content>>
             Upd(m) == IF m.id = data.stream_id
                       THEN [m EXCEPT !.content = text, !.shared = FALSE]
                       ELSE IF m.shared THEN [m EXCEPT !.content = text]
                       ELSE m
         IN  [C EXCEPT !.streamingMessageRef.content = text,
                       !.messages = [i \in DOMAIN @ |-> Upd(@[i])]]

\* handleStreamEnd, created when currentStreamId was `captured`
handleStreamEnd(C, data, captured) ==
    IF data.stream_id # captured THEN C
    ELSE LET C1 == [C EXCEPT !.isTyping = FALSE, !.currentStreamId = Null]
             Upd(m) == IF m.id = data.stream_id
                       THEN [m EXCEPT !.isStreaming = FALSE, !.shared = FALSE]
                       ELSE IF m.shared
                       THEN [m EXCEPT !.isStreaming = FALSE, !.shared = FALSE]
                       ELSE m
         IN  IF C.streamingMessageRef = NoMessage THEN C1
             ELSE [C1 EXCEPT
                     !.messages = [i \in DOMAIN @ |-> Upd(@[i])],
                     !.completeCalls = Append(@,
                         [C.streamingMessageRef EXCEPT !.isStreaming = FALSE]),
                     !.streamingMessageRef = NoMessage]

\* handleStreamError
handleStreamError(C, data) ==
    LET C1 == [C EXCEPT !.isTyping = FALSE, !.currentStreamId = Null,
                        !.errorCalls = @ + 1]
        Upd(m) == IF m.id = data.stream_id
                  THEN [m EXCEPT !.isStreaming = FALSE, !.error = TRUE,
                                 !.shared = FALSE]
                  ELSE Unshare(m)
    IN  IF C.streamingMessageRef = NoMessage THEN C1
        ELSE [C1 EXCEPT !.messages = [i \in DOMAIN @ |-> Upd(@[i])],
                        !.streamingMessageRef = NoMessage]

\* The keys of messageHandlersRef in use: the message types and the
\* wildcard.
Types ==
    {"llm.stream.start", "llm.stream.chunk", "llm.stream.end",
     "llm.stream.error", "connection.established", "*"}

\* Listeners other than the coordinator's: two that record the call and
\* return, one that throws.
Listeners == {"listenerA", "listenerB", "throwingListener"}

\* new Map(): no key.  A key maps to its handlers in insertion order (a Set
\* iterates in insertion order); a key without handlers is absent.
NoHandlers == [t \in Types |-> << >>]

\* The handlers the subscription effect registers, for a render in which
\* currentStreamId = id.
Handlers(id) ==
    [t \in Types |->
        CASE t = "llm.stream.start" ->
                << [fn |-> "handleStreamStart", currentStreamId |-> Null] >>
          [] t = "llm.stream.chunk" ->
                << [fn |-> "handleStreamChunk", currentStreamId |-> id] >>
          [] t = "llm.stream.end" ->
                << [fn |-> "handleStreamEnd", currentStreamId |-> id] >>
          [] t = "llm.stream.error" ->
                << [fn |-> "handleStreamError", currentStreamId |-> Null] >>
          [] OTHER -> << >>]

\* handler(message), for a handler that returns
Call(C, h, data) ==
    CASE h.fn = "handleStreamStart" -> handleStreamStart(C, data)
      [] h.fn = "handleStreamChunk" -> handleStreamChunk(C, data, h.currentStreamId)
      [] h.fn = "handleStreamEnd"   -> handleStreamEnd(C, data, h.currentStreamId)
      [] h.fn = "handleStreamError" -> handleStreamError(C, data)
      [] OTHER -> C

\* handlers.forEach(handler => handler(message)) over the handlers hs of
\* key, inside the try block of onmessage: P.thrown is set by the handler
\* that throws, and nothing of the try block runs after it.
RECURSIVE ForEach(_, _, _, _)
ForEach(P, key, hs, data) ==
    IF hs = << >> \/ P.thrown THEN P
    ELSE LET h == Head(hs)
             P1 == [chat   |-> Call(P.chat, h, data),
                    calls  |-> IF h.fn \in Listeners
                               THEN Append(P.calls,
                                        [fn |-> h.fn, key |-> key, data |-> data])
                               ELSE P.calls,
                    thrown |-> h.fn = "throwingListener"]
         IN  ForEach(P1, key, Tail(hs), data)

\* The dispatch without the wildcard pass.
Publish_NoWildcard(C, data) ==
    ForEach([chat |-> C, calls |-> << >>, thrown |-> FALSE],
            data.type, messageHandlersRef[data.type], data)

\* ws.onmessage, the dispatch: the handlers of the type, then the wildcard
\* handlers.
Publish(C, data) ==
    ForEach(ForEach([chat |-> C, calls |-> << >>, thrown |-> FALSE],
                    data.type, messageHandlersRef[data.type], data),
            "*", messageHandlersRef["*"], data)

\* What the dispatch makes of the coordinator's state.
Dispatch(C, data) == Publish(C, data).chat

\* event.data that JSON.parse rejects
Malformed == [type |-> "SyntaxError"]

\* ws.onmessage that hands a payload it cannot parse to the listeners of
\* the stream errors.
onmessage_ReportsMalformed(C, data) ==
    Publish(C, IF data = Malformed
               THEN [type |-> "llm.stream.error", stream_id |-> C.currentStreamId,
                     content |-> Null]
               ELSE data)

\* ws.onmessage: JSON.parse throws on a malformed payload before any
\* handler is looked up, and the catch logs the error.
onmessage(C, data) ==
    IF data = Malformed
    THEN [chat |-> C, calls |-> << >>, thrown |-> TRUE]
    ELSE Publish(C, data)

\* subscribe(messageType, handler): Set.add keeps one entry per function.
subscribe(M, messageType, h) ==
    IF \E i \in DOMAIN M[messageType] : M[messageType][i] = h THEN M
    ELSE [M EXCEPT ![messageType] = Append(@, h)]

\* The function subscribe() returned, called.
unsubscribe(M, messageType, h) ==
    [M EXCEPT ![messageType] = SelectSeq(@, LAMBDA x : x # h)]

\* The inbound messages of the protocol.  Stream ids are issued by the
\* server, one per response: a start never reuses an id.
Events ==
    [type : {"llm.stream.start"}, stream_id : StreamIds \ started, content : {Null}]
    \cup [type : {"llm.stream.chunk"}, stream_id : StreamIds, content : Tokens]
    \cup [type : {"llm.stream.end", "llm.stream.error"},
          stream_id : StreamIds, content : {Null}]
    \cup [type : {"connection.established"}, stream_id : {Null}, content : {Null}]

\* The delivered stream events read as one response: "idle" before any,
\* "open" after start(id), "closed" after start(id) chunk(id)* end(id),
\* "broken" as soon as anything else was delivered; text is the tokens of
\* the chunks in order.
Track(r, e) ==
    CASE e.type = "connection.established" -> r
      [] e.type = "llm.stream.start" /\ r.phase = "idle" ->
            [phase |-> "open", id |-> e.stream_id, text |-> << >>]
      [] e.type = "llm.stream.chunk" /\ r.phase = "open" /\ e.stream_id = r.id ->
            [r EXCEPT !.text = @ \o <<e.content>>]
      [] e.type = "llm.stream.end" /\ r.phase = "open" /\ e.stream_id = r.id ->
            [r EXCEPT !.phase = "closed"]
      [] OTHER -> [r EXCEPT !.phase = "broken"]

ConnBecomes(K) ==
    /\ state' = K.state
    /\ wsRef' = K.wsRef
    /\ sockets' = K.sockets
    /\ reconnectTimeoutRef' = K.reconnectTimeoutRef
    /\ timeouts' = K.timeouts
    /\ heartbeatIntervalRef' = K.heartbeatIntervalRef
    /\ intervals' = K.intervals

ChatBecomes(C) ==
    /\ messages' = C.messages
    /\ isTyping' = C.isTyping
    /\ currentStreamId' = C.currentStreamId
    /\ streamingMessageRef' = C.streamingMessageRef
    /\ completeCalls' = C.completeCalls
    /\ errorCalls' = C.errorCalls

\* ---- actions of the connection manager

Connect ==
    /\ Len(connect(ConnState).sockets) <= MaxSockets
    /\ ConnBecomes(connect(ConnState))
    /\ UNCHANGED <<messageHandlersRef, outbox, chatVars, histVars, authVars, httpVars, chatStore>>

\* disconnect() that empties messageHandlersRef as well
Disconnect_DropsSubscriptions ==
    /\ ConnBecomes(disconnect(ConnState))
    /\ messageHandlersRef' = NoHandlers
    /\ UNCHANGED <<outbox, chatVars, histVars, authVars, httpVars, chatStore>>

Disconnect ==
    /\ ConnBecomes(disconnect(ConnState))
    /\ UNCHANGED <<messageHandlersRef, outbox, chatVars, histVars, authVars, httpVars, chatStore>>

\* The connection of socket w is established.
SocketOpen ==
    \E w \in DOMAIN sockets :
        /\ sockets[w].readyState = "CONNECTING"
        /\ ConnBecomes(onopen(ConnState, w))
        /\ drop' = IF drop.id # Null THEN [drop EXCEPT !.reopened = TRUE] ELSE drop
        /\ UNCHANGED <<messageHandlersRef, outbox, chatVars, authVars, httpVars,
                       chatStore,
                       nEvents, started, run, nUserCalls, returns, calls,
                       dropped, unsubs>>

\* Socket w closes.  A connection that was never established closes
\* uncleanly; an established one closes cleanly or not.
SocketClose ==
    \E w \in DOMAIN sockets, wasClean \in BOOLEAN :
        /\ sockets[w].readyState # "CLOSED"
        /\ ~sockets[w].opened => ~wasClean
        /\ ConnBecomes(onclose(ConnState, w, wasClean))
        /\ drop' = IF ~wasClean /\ sockets[w].readyState = "OPEN" /\ currentStreamId # Null
                   THEN [id |-> currentStreamId,
                         text |-> streamingMessageRef.content,
                         reopened |-> FALSE, late |-> FALSE]
                   ELSE drop
        /\ UNCHANGED <<messageHandlersRef, outbox, chatVars, authVars, httpVars,
                       chatStore,
                       nEvents, started, run, nUserCalls, returns, calls,
                       dropped, unsubs>>

SocketError ==
    /\ \E w \in DOMAIN sockets : sockets[w].readyState # "CLOSED"
    /\ ~state.error \/ state.isConnecting
    /\ ConnBecomes(onerror(ConnState))
    /\ UNCHANGED <<messageHandlersRef, outbox, chatVars, histVars, authVars, httpVars, chatStore>>

\* The reconnection timeout t fires; at most `limit` sockets are created.
ReconnectTimeout(limit) ==
    \E t \in timeouts :
        /\ Len(onTimeout(ConnState, t).sockets) <= limit
        /\ ConnBecomes(onTimeout(ConnState, t))
        /\ UNCHANGED <<messageHandlersRef, outbox, chatVars, histVars, authVars, httpVars, chatStore>>

\* ws.onmessage with a well-formed payload drawn from events; a socket
\* delivers messages from its open until its close event.
Delivery(limit, events) ==
    \E w \in DOMAIN sockets, e \in events :
        /\ sockets[w].opened /\ sockets[w].readyState \in {"OPEN", "CLOSING"}
        /\ nEvents < limit
        /\ state' = IF e.type = "connection.established"
                    THEN [state EXCEPT !.connectionId = 1] ELSE state
        /\ LET P == Publish(ChatState, e)
           IN  ChatBecomes(P.chat) /\ calls' = P.calls
        /\ nEvents' = nEvents + 1
        /\ started' = IF e.type = "llm.stream.start"
                      THEN started \cup {e.stream_id} ELSE started
        /\ run' = Track(run, e)
        /\ drop' = IF /\ e.type = "llm.stream.chunk" /\ e.stream_id = drop.id
                      /\ drop.reopened
                   THEN [drop EXCEPT !.late = TRUE] ELSE drop
        /\ UNCHANGED <<wsRef, sockets, reconnectTimeoutRef, timeouts,
                       heartbeatIntervalRef, intervals, messageHandlersRef,
                       outbox, nUserCalls, returns, dropped, unsubs,
                       authVars, httpVars, chatStore>>

\* ws.onmessage with any message of the protocol
SocketMessage(limit) == Delivery(limit, Events)

\* The messages sent to the components' listeners in the runs over several
\* connections: a chunk, and the greeting of a connection.
ListenerEvents ==
    { [type |-> "llm.stream.chunk", stream_id |-> "s1", content |-> "a"],
      [type |-> "connection.established", stream_id |-> Null, content |-> Null] }

ListenerMessage == Delivery(MaxBusEvents, ListenerEvents)

\* ws.onmessage with a payload that is not JSON, at most one between two
\* well-formed messages.
SocketGarbage(limit) ==
    \E w \in DOMAIN sockets :
        /\ sockets[w].opened /\ sockets[w].readyState \in {"OPEN", "CLOSING"}
        /\ nEvents < limit /\ nEvents \notin dropped
        /\ LET P == onmessage(ChatState, Malformed)
           IN  ChatBecomes(P.chat) /\ calls' = P.calls
        /\ dropped' = dropped \cup {nEvents}
        /\ UNCHANGED <<connVars, nEvents, started, run, drop, nUserCalls,
                       returns, unsubs, authVars, httpVars, chatStore>>

\* send(message), called by the user of the hook
Send ==
    \E throws \in BOOLEAN :
        /\ Len(returns) < MaxSends
        /\ outbox' = send(Len(returns) + 1, throws).outbox
        /\ returns' = Append(returns, [ok   |-> send(Len(returns) + 1, throws).ok,
                                       open |-> CanSend])
        /\ UNCHANGED <<state, wsRef, sockets, reconnectTimeoutRef, timeouts,
                       heartbeatIntervalRef, intervals, messageHandlersRef,
                       chatVars, nEvents, started, run, drop, nUserCalls,
                       calls, dropped, unsubs, authVars, httpVars, chatStore>>

\* The types the plain listeners are registered for.
ListenerTypes == {"llm.stream.chunk", "*"}

\* the number of handlers registered
Size(M) == Len(M["llm.stream.start"]) + Len(M["llm.stream.chunk"])
           + Len(M["llm.stream.end"]) + Len(M["llm.stream.error"])
           + Len(M["connection.established"]) + Len(M["*"])

\* subscribe(messageType, handler), called by a component
Subscribe ==
    \E t \in ListenerTypes, fn \in Listeners :
        /\ Size(messageHandlersRef) < Size(Handlers(Null)) + MaxSubscriptions
        /\ messageHandlersRef' =
              subscribe(messageHandlersRef, t, [fn |-> fn, currentStreamId |-> Null])
        /\ UNCHANGED <<state, wsRef, sockets, reconnectTimeoutRef, timeouts,
                       heartbeatIntervalRef, intervals, outbox, chatVars,
                       histVars, authVars, httpVars, chatStore>>

\* The function a subscribe() call returned, called by the component
Unsubscribe ==
    \E t \in ListenerTypes, fn \in Listeners :
        /\ messageHandlersRef' =
              unsubscribe(messageHandlersRef, t, [fn |-> fn, currentStreamId |-> Null])
        /\ UNCHANGED <<state, wsRef, sockets, reconnectTimeoutRef, timeouts,
                       heartbeatIntervalRef, intervals, outbox, chatVars,
                       histVars, authVars, httpVars, chatStore>>

\* subscribe(messageType, handler) called by a component that keeps the
\* function returned; fns: the handlers the components pass.
SubscribeCall(limit, fns) ==
    \E t \in ListenerTypes, fn \in fns :
        /\ Len(unsubs) < limit
        /\ messageHandlersRef' =
              subscribe(messageHandlersRef, t, [fn |-> fn, currentStreamId |-> Null])
        /\ unsubs' = Append(unsubs, [type |-> t, fn |-> fn, called |-> 0,
                                     offline |-> ~CanSend /\ ~state.isConnected])
        /\ UNCHANGED <<state, wsRef, sockets, reconnectTimeoutRef, timeouts,
                       heartbeatIntervalRef, intervals, outbox, chatVars,
                       nEvents, started, run, drop, nUserCalls, returns, calls,
                       dropped, authVars, httpVars, chatStore>>

\* subscribe() called while the hook is disconnected
SubscribeOffline ==
    /\ ~CanSend /\ ~state.isConnected
    /\ SubscribeCall(MaxOfflineSubscriptions, {"listenerA"})

\* The component calls the i-th function returned.
UnsubscribeCall ==
    \E i \in DOMAIN unsubs :
        /\ unsubs[i].called < MaxUnsubscribeCalls
        /\ messageHandlersRef' =
              unsubscribe(messageHandlersRef, unsubs[i].type,
                          [fn |-> unsubs[i].fn, currentStreamId |-> Null])
        /\ unsubs' = [unsubs EXCEPT ![i].called = @ + 1]
        /\ UNCHANGED <<state, wsRef, sockets, reconnectTimeoutRef, timeouts,
                       heartbeatIntervalRef, intervals, outbox, chatVars,
                       nEvents, started, run, drop, nUserCalls, returns, calls,
                       dropped, authVars, httpVars, chatStore>>

\* ---- actions of the coordinator

\* The subscription effect of useStreamingChat run again: its cleanup
\* removes the four handlers of the previous render, then the new ones,
\* created with currentStreamId = id, are added after the handlers present.
Resubscribe(M, id) ==
    [t \in Types |->
        SelectSeq(M[t], LAMBDA h : h.fn \in Listeners) \o Handlers(id)[t]]

\* React commits the pending state: the handlers are created anew with the
\* committed currentStreamId and the subscription effect replaces the old
\* ones by them.
Render ==
    /\ messageHandlersRef # Resubscribe(messageHandlersRef, currentStreamId)
    /\ messageHandlersRef' = Resubscribe(messageHandlersRef, currentStreamId)
    /\ UNCHANGED <<state, wsRef, sockets, reconnectTimeoutRef, timeouts,
                   heartbeatIntervalRef, intervals, outbox, chatVars, histVars,
                   authVars, httpVars, chatStore>>

\* sendMessage(content), were it to take the user message back when the
\* delivery fails
sendMessage_RollsBack ==
    /\ nUserCalls < MaxUserCalls
    /\ nUserCalls' = nUserCalls + 1
    /\ \E throws \in BOOLEAN :
          LET success == send(Len(returns) + 1, throws)
          IN  /\ outbox' = success.outbox
              /\ messages' = IF success.ok
                             THEN Append(messages, Message("user", "user", <<"hello">>, FALSE, FALSE))
                             ELSE messages
              /\ errorCalls' = IF success.ok THEN errorCalls ELSE errorCalls + 1
              /\ returns' = Append(returns, [ok |-> success.ok, open |-> CanSend])
    /\ UNCHANGED <<state, wsRef, sockets, reconnectTimeoutRef, timeouts,
                   heartbeatIntervalRef, intervals, messageHandlersRef,
                   isTyping, currentStreamId, streamingMessageRef,
                   completeCalls, nEvents, started, run, drop, calls,
                   dropped, unsubs,
                   authVars, httpVars, chatStore>>

\* sendMessage(content)
sendMessage ==
    /\ nUserCalls < MaxUserCalls
    /\ nUserCalls' = nUserCalls + 1
    /\ messages' = Append(messages, Message("user", "user", <<"hello">>, FALSE, FALSE))
    /\ \E throws \in BOOLEAN :
          LET success == send(Len(returns) + 1, throws)
          IN  /\ outbox' = success.outbox
              /\ errorCalls' = IF success.ok THEN errorCalls ELSE errorCalls + 1
              /\ returns' = Append(returns, [ok |-> success.ok, open |-> CanSend])
    /\ UNCHANGED <<state, wsRef, sockets, reconnectTimeoutRef, timeouts,
                   heartbeatIntervalRef, intervals, messageHandlersRef,
                   isTyping, currentStreamId, streamingMessageRef,
                   completeCalls, nEvents, started, run, drop, calls,
                   dropped, unsubs,
                   authVars, httpVars, chatStore>>

\* clearMessages()
clearMessages ==
    /\ nUserCalls < MaxUserCalls
    /\ nUserCalls' = nUserCalls + 1
    /\ messages' = << >>
    /\ streamingMessageRef' = NoMessage
    /\ currentStreamId' = Null
    /\ isTyping' = FALSE
    /\ run' = [run EXCEPT !.phase = "broken"]
    /\ UNCHANGED <<connVars, completeCalls, errorCalls,
                   nEvents, started, drop, returns, calls, dropped, unsubs,
                   authVars, httpVars, chatStore>>

\* ===================================================================
\*  Chunked-HTTP streaming (StreamingChatBox.tsx)
\* ===================================================================

\* The text of a response body, as a sequence of symbols: the prefix
\* "data: ", the newline, and the pieces of a JSON value.  {"type":"token",
\* "content":"a"} is written "{" "a" "}", {"type":"error",..} "{" "!" "}",
\* {"type":"complete","content":..} "{" "=" "}", and [DONE] "[" "]".
Prefix == "data: "
Newline == "\n"

\* The lines a server sends: the two tokens, an error, a completion, the
\* end marker, and the empty line that separates the events.
Lines ==
    { <<Prefix, "{", "a", "}">>, <<Prefix, "{", "b", "}">>,
      <<Prefix, "{", "!", "}">>, <<Prefix, "{", "=", "}">>,
      <<Prefix, "[", "]">>, << >> }

\* The bodies of up to n lines, each line ended by a newline.
RECURSIVE Payloads(_)
Payloads(n) ==
    IF n = 0 THEN { << >> }
    ELSE Payloads(n - 1)
         \cup { p \o l \o <<Newline>> : p \in Payloads(n - 1), l \in Lines }

\* chunk.split('\n')
RECURSIVE split(_)
split(chunk) ==
    IF \A i \in DOMAIN chunk : chunk[i] # Newline THEN <<chunk>>
    ELSE LET i == CHOOSE j \in DOMAIN chunk :
                     chunk[j] = Newline /\ \A k \in 1..(j - 1) : chunk[k] # Newline
         IN  <<SubSeq(chunk, 1, i - 1)>> \o split(SubSeq(chunk, i + 1, Len(chunk)))

\* JSON.parse(data) and the type of the value; "invalid": JSON.parse throws
parse(data) ==
    IF Len(data) = 3 /\ data[1] = "{" /\ data[3] = "}"
    THEN CASE data[2] \in {"a", "b"} -> [type |-> "token", content |-> data[2]]
           [] data[2] = "!" -> [type |-> "error", content |-> Null]
           [] data[2] = "=" -> [type |-> "complete", content |-> "c"]
           [] OTHER -> [type |-> "invalid", content |-> Null]
    ELSE [type |-> "invalid", content |-> Null]

\* The body of the for loop with a [DONE] that calls onComplete and reads
\* on.
line_DoneGoesOn(R, l) ==
    IF R.phase = "returned" THEN R
    ELSE IF l = << >> \/ l[1] # Prefix THEN R
    ELSE LET data == Tail(l)
             parsed == parse(data)
         IN  IF data = <<"[", "]">>
             THEN [R EXCEPT !.calls = Append(@, [fn |-> "onComplete",
                                                 arg |-> R.fullResponse])]
             ELSE CASE parsed.type = "token" ->
                         [R EXCEPT !.fullResponse = Append(@, parsed.content),
                                   !.calls = Append(@, [fn |-> "onToken",
                                                        arg |-> <<parsed.content>>])]
                    [] parsed.type = "complete" ->
                         [R EXCEPT !.phase = "returned",
                                   !.fullResponse = <<parsed.content>>,
                                   !.calls = Append(@, [fn |-> "onComplete",
                                                        arg |-> <<parsed.content>>])]
                    [] OTHER -> R

\* The body of the for loop, for one line; R.phase = "returned" once the
\* function has returned.  The error thrown for the type "error" is caught
\* by the catch that skips invalid JSON.
line(R, l) ==
    IF R.phase = "returned" THEN R
    ELSE IF l = << >> \/ l[1] # Prefix THEN R
    ELSE LET data == Tail(l)
             parsed == parse(data)
         IN  IF data = <<"[", "]">>
             THEN [R EXCEPT !.phase = "returned",
                            !.calls = Append(@, [fn |-> "onComplete",
                                                 arg |-> R.fullResponse])]
             ELSE CASE parsed.type = "token" ->
                         [R EXCEPT !.fullResponse = Append(@, parsed.content),
                                   !.calls = Append(@, [fn |-> "onToken",
                                                        arg |-> <<parsed.content>>])]
                    [] parsed.type = "complete" ->
                         [R EXCEPT !.phase = "returned",
                                   !.fullResponse = <<parsed.content>>,
                                   !.calls = Append(@, [fn |-> "onComplete",
                                                        arg |-> <<parsed.content>>])]
                    [] OTHER -> R

\* for (const line of lines)
RECURSIVE forOf(_, _)
forOf(R, lines) ==
    IF lines = << >> THEN R ELSE forOf(line(R, Head(lines)), Tail(lines))

\* One turn of the read loop: reader.read() gives the next n symbols of the
\* body, or done when nothing is left.
read(R, n) ==
    IF R.rest = << >>
    THEN [R EXCEPT !.phase = "returned",
                   !.calls = Append(@, [fn |-> "onComplete", arg |-> R.fullResponse])]
    ELSE forOf([R EXCEPT !.rest = SubSeq(@, n + 1, Len(@))],
               split(SubSeq(R.rest, 1, n)))

\* The outer catch: onError with the error, or with "Stream cancelled by
\* user" for an AbortError.
catch(R, error) ==
    [R EXCEPT !.phase = "returned",
              !.calls = Append(@, [fn |-> "onError", arg |-> <<error>>])]

\* No streamChatResponse call has been made.
NoStream ==
    [phase |-> "idle", signal |-> 0, payload |-> << >>, rest |-> << >>,
     fullResponse |-> << >>, calls |-> << >>]

\* streamChatResponse up to its fetch: onStart, then a controller of its
\* own (id 2), whose signal goes to fetch.
streamChatResponse(R) ==
    [R EXCEPT !.phase = "fetching",
              !.signal = 2,
              !.calls = Append(@, [fn |-> "onStart", arg |-> << >>])]

\* The body read in one piece, and then to its end.
Whole(R) ==
    LET R1 == read(R, Len(R.rest))
    IN  IF R1.phase = "returned" THEN R1 ELSE read(R1, 0)

\* ---- actions of the chunked-HTTP streaming

\* StreamingChatManager.send(message, options): a controller for the
\* manager (id 1), then streamChatResponse(message, options).
ManagerSend ==
    /\ stream.phase = "idle"
    /\ controller' = 1
    /\ stream' = streamChatResponse(stream)
    /\ UNCHANGED <<aborted, authVars, connVars, chatVars, histVars,
                   chatStore>>

\* StreamingChatManager.cancel()
ManagerCancel ==
    /\ controller # 0
    /\ aborted' = aborted \cup {controller}
    /\ controller' = 0
    /\ UNCHANGED <<stream, authVars, connVars, chatVars, histVars,
                   chatStore>>

\* fetch settles: rejected with an AbortError when its signal is aborted,
\* or with a network error; else a response, ok with a body or not ok.
Response ==
    /\ stream.phase = "fetching"
    /\ \/ /\ stream.signal \in aborted
          /\ stream' = catch(stream, "Stream cancelled by user")
       \/ /\ stream.signal \notin aborted
          /\ \/ stream' = catch(stream, "network")
             \/ stream' = catch(stream, "HTTP status")
             \/ \E p \in Payloads(MaxLines) :
                   stream' = [stream EXCEPT !.phase = "reading",
                                            !.payload = p, !.rest = p]
    /\ UNCHANGED <<controller, aborted, authVars, connVars, chatVars, histVars,
                   chatStore>>

\* reader.read() settles: rejected with an AbortError when the signal is
\* aborted, else the next piece of the body, of any size, or done.
Read ==
    /\ stream.phase = "reading"
    /\ IF stream.signal \in aborted
       THEN stream' = catch(stream, "Stream cancelled by user")
       ELSE \E n \in 0..Len(stream.rest) :
               /\ n = 0 <=> stream.rest = << >>
               /\ stream' = read(stream, n)
    /\ UNCHANGED <<controller, aborted, authVars, connVars, chatVars, histVars,
                   chatStore>>

\* reader.read() is rejected: the connection broke.
ReadFails ==
    /\ stream.phase = "reading"
    /\ stream' = catch(stream, "network")
    /\ UNCHANGED <<controller, aborted, authVars, connVars, chatVars, histVars,
                   chatStore>>

\* ===================================================================
\*  Chat store (useChatStore)
\* ===================================================================

\* The store as created.
useChatStore ==
    [messages |-> << >>, isTyping |-> FALSE, isConnected |-> FALSE,
     socket |-> "null", emitted |-> 0, fetches |-> 0, sent |-> 0]

\* addMessage(message)
addMessage(S, role, agent) ==
    [S EXCEPT !.messages = Append(@, [role |-> role, agent |-> agent])]

\* useChatStore.sendMessage(content, type): the user message, then the
\* 'message' event on a connected socket, or else the POST of the REST
\* fallback.
useChatStore_sendMessage(S) ==
    LET S1 == [addMessage(S, "user", Null) EXCEPT !.sent = @ + 1]
    IN  IF S.socket = "connected"
        THEN [S1 EXCEPT !.emitted = @ + 1, !.isTyping = TRUE]
        ELSE [S1 EXCEPT !.fetches = @ + 1]

\* The fallback's fetch settles: the assistant's answer, or the message of
\* the catch; then the finally.
fetchSettled(S, fulfilled) ==
    [addMessage(S, "assistant", IF fulfilled THEN "agent" ELSE "error")
        EXCEPT !.fetches = @ - 1, !.isTyping = FALSE]

\* connectWebSocket()
connectWebSocket(S) == [S EXCEPT !.socket = "disconnected"]

\* ---- actions of the chat store

StoreSendMessage ==
    /\ chatStore.sent < MaxUserCalls
    /\ chatStore' = useChatStore_sendMessage(chatStore)
    /\ UNCHANGED <<authVars, connVars, chatVars, histVars, httpVars>>

FetchSettles ==
    /\ chatStore.fetches > 0
    /\ \E fulfilled \in BOOLEAN : chatStore' = fetchSettled(chatStore, fulfilled)
    /\ UNCHANGED <<authVars, connVars, chatVars, histVars, httpVars>>

\* a call on a socket not yet connected leaves the same state again
StoreConnect ==
    /\ chatStore.socket # "disconnected"
    /\ chatStore' = connectWebSocket(chatStore)
    /\ UNCHANGED <<authVars, connVars, chatVars, histVars, httpVars>>

\* socket.on('message'): setTyping(false), then the assistant's message
onStoreMessage(S) ==
    [addMessage(S, "assistant", "agent") EXCEPT !.isTyping = FALSE]

\* socket.on('connect') / socket.on('disconnect') / socket.on('message')
StoreSocketEvent ==
    /\ chatStore.socket # "null"
    /\ \/ /\ chatStore.socket = "disconnected"
          /\ chatStore' = [chatStore EXCEPT !.socket = "connected",
                                            !.isConnected = TRUE]
       \/ /\ chatStore.socket = "connected"
          /\ chatStore' = [chatStore EXCEPT !.socket = "disconnected",
                                            !.isConnected = FALSE]
       \/ /\ chatStore.socket = "connected"
          /\ Len(chatStore.messages) <= MaxUserCalls
          /\ chatStore' = onStoreMessage(chatStore)
    /\ UNCHANGED <<authVars, connVars, chatVars, histVars, httpVars>>

\* ===================================================================
\*  Specifications
\* ===================================================================

vars == <<authVars, connVars, chatVars, histVars, httpVars, chatStore>>

\* The credentials as rehydrated from storage (stored = 1) or none.
AuthInit(stored) ==
    /\ user = stored
    /\ accessToken = stored
    /\ refreshToken = stored
    /\ isAuthenticated = FALSE
    /\ isRefreshing = FALSE
    /\ refreshSubscribers = << >>
    /\ requests = << >>
    /\ issued = 1
    /\ nCalls = 0

\* The chat view right after mounting: the first render's effects have run
\* (connect() of autoConnect, and the four subscriptions); opened = TRUE:
\* the first socket has opened since.
ConnInit(opened) ==
    /\ state = IF opened THEN [InitialState EXCEPT !.isConnected = TRUE]
               ELSE [InitialState EXCEPT !.isConnecting = TRUE]
    /\ wsRef = 1
    /\ sockets = IF opened THEN <<[readyState |-> "OPEN", opened |-> TRUE]>>
                 ELSE <<NewSocket>>
    /\ reconnectTimeoutRef = 0
    /\ timeouts = {}
    /\ heartbeatIntervalRef = IF opened THEN 1 ELSE 0
    /\ intervals = IF opened THEN {1} ELSE {}
    /\ messageHandlersRef = Handlers(Null)
    /\ outbox = << >>

ChatInit ==
    /\ messages = << >>
    /\ isTyping = FALSE
    /\ currentStreamId = Null
    /\ streamingMessageRef = NoMessage
    /\ completeCalls = << >>
    /\ errorCalls = 0
    /\ nEvents = 0
    /\ started = {}
    /\ run = [phase |-> "idle", id |-> Null, text |-> << >>]
    /\ drop = [id |-> Null, text |-> << >>, reopened |-> FALSE, late |-> FALSE]
    /\ nUserCalls = 0
    /\ returns = << >>
    /\ calls = << >>
    /\ dropped = {}
    /\ unsubs = << >>
    /\ controller = 0
    /\ aborted = {}
    /\ stream = NoStream
    /\ chatStore = useChatStore

\* ---- the request pipeline alone
AuthSpecInit ==
    /\ \E stored \in {0, 1} : AuthInit(stored)
    /\ ConnInit(FALSE)
    /\ ChatInit

AuthNext ==
    \/ ApiCall
    \/ checkAuth
    \/ UserLogout
    \/ Respond2xx
    \/ Respond401
    \/ RespondError

AuthSpec == AuthSpecInit /\ [][AuthNext]_vars

\* ---- the coordinator on a connection that stays open
ChatSpecInit ==
    /\ AuthInit(1)
    /\ ConnInit(TRUE)
    /\ ChatInit

ChatNext ==
    \/ SocketMessage(MaxEvents)
    \/ Render
    \/ sendMessage
    \/ clearMessages

ChatSpec == ChatSpecInit /\ [][ChatNext]_vars

\* ---- the connection manager alone, driven through its API
WsSpecInit ==
    /\ AuthInit(1)
    /\ ConnInit(FALSE)
    /\ ChatInit

WsNext ==
    \/ Connect
    \/ Disconnect
    \/ SocketOpen
    \/ SocketClose
    \/ SocketError
    \/ ReconnectTimeout(MaxSockets)
    \/ Send

WsSpec == WsSpecInit /\ [][WsNext]_vars

\* ---- the chat view's inbound side on its connection: useStreamingChat
\* uses send and subscribe only, so connect() runs on mount and on the
\* reconnection timeout
ConnSpecInit ==
    /\ AuthInit(1)
    /\ ConnInit(FALSE)
    /\ ChatInit

ConnNext ==
    \/ SocketOpen
    \/ SocketClose
    \/ SocketError
    \/ ReconnectTimeout(MaxSockets)
    \/ SocketMessage(MaxWireEvents)
    \/ SocketGarbage(MaxWireEvents)
    \/ Render

ConnSpec == ConnSpecInit /\ [][ConnNext]_vars

\* ---- the outbound side: sendMessage of the chat view on its
\* connection, and sendMessage of the chat store on its socket
SendSpecInit ==
    /\ AuthInit(1)
    /\ ConnInit(FALSE)
    /\ ChatInit

SendNext ==
    \/ SocketOpen
    \/ SocketClose
    \/ SocketError
    \/ ReconnectTimeout(MaxSockets)
    \/ sendMessage
    \/ clearMessages
    \/ StoreConnect
    \/ StoreSocketEvent
    \/ StoreSendMessage
    \/ FetchSettles

SendSpec == SendSpecInit /\ [][SendNext]_vars

\* ---- the connection manager left to itself: the sockets fail or close
\* and the reconnection timer calls connect()
ReconnSpecInit ==
    /\ AuthInit(1)
    /\ ConnInit(FALSE)
    /\ ChatInit

ReconnNext ==
    \/ SocketOpen
    \/ SocketClose
    \/ SocketError
    \/ ReconnectTimeout(MaxReconnSockets)

ReconnSpec == ReconnSpecInit /\ [][ReconnNext]_vars

\* ---- the dispatcher: components subscribe plain listeners next to the
\* coordinator's handlers, on an open connection
BusSpecInit ==
    /\ AuthInit(1)
    /\ ConnInit(TRUE)
    /\ ChatInit

BusNext ==
    \/ Subscribe
    \/ Unsubscribe
    \/ SocketMessage(MaxBusEvents)

BusSpec == BusSpecInit /\ [][BusNext]_vars

\* ---- the hook used by components that subscribe while it is
\* disconnected, over connections made, closed and made again
SubSpecInit ==
    /\ AuthInit(1)
    /\ ConnInit(FALSE)
    /\ ChatInit

SubNext ==
    \/ Connect
    \/ Disconnect
    \/ SocketOpen
    \/ SocketClose
    \/ SocketError
    \/ ReconnectTimeout(MaxSockets)
    \/ SubscribeOffline
    \/ ListenerMessage

SubSpec == SubSpecInit /\ [][SubNext]_vars

\* ---- components subscribing and calling the functions returned
UnsubSpecInit ==
    /\ AuthInit(1)
    /\ ConnInit(TRUE)
    /\ ChatInit

UnsubNext ==
    \/ SubscribeCall(MaxSubscribeCalls, Listeners)
    \/ UnsubscribeCall

UnsubSpec == UnsubSpecInit /\ [][UnsubNext]_vars

\* ---- a chunked-HTTP stream driven through StreamingChatManager
HttpSpecInit ==
    /\ AuthInit(1)
    /\ ConnInit(FALSE)
    /\ ChatInit

HttpNext ==
    \/ ManagerSend
    \/ ManagerCancel
    \/ Response
    \/ Read
    \/ ReadFails

HttpSpec == HttpSpecInit /\ [][HttpNext]_vars

\* ===================================================================
\*  Properties of the request pipeline
\* ===================================================================

Range(f) == {f[i] : i \in DOMAIN f}

\* refresh calls made by the response interceptor that have not settled
InterceptorRefreshes(reqs) ==
    {f \in 1..Len(reqs) : /\ reqs[f].kind = "refresh"
                          /\ reqs[f].owner > 0
                          /\ reqs[f].st \notin {"ok", "rejected"}}

\* refresh calls on the wire, whoever made them
RefreshInFlight ==
    {f \in 1..Len(requests) : requests[f].kind = "refresh" /\ requests[f].st = "sent"}

\* C1: single-flight refresh.  While the interceptor is refreshing, the
\* requests whose 401 it has handled (the one that started the refresh and
\* those queued behind it) share exactly one refresh call of the
\* interceptor; and in the step in which that call succeeds, every one of
\* them goes out for the second time, carrying the token just issued, and
\* no other call is made.
C1_SingleFlight ==
    [][ /\ isRefreshing' => Cardinality(InterceptorRefreshes(requests')) = 1
        /\ \A f \in 1..Len(requests) :
              ( /\ requests[f].kind = "refresh"
                /\ requests[f].owner > 0
                /\ requests[f].st = "sent"
                /\ requests'[f].st = "ok" )
              => /\ Len(requests') = Len(requests)
                 /\ accessToken' = issued' /\ issued' = issued + 1
                 /\ \A r \in {requests[f].owner} \cup Range(refreshSubscribers) :
                       /\ requests'[r].st = "sent"
                       /\ requests[r].sends = 1
                       /\ requests'[r].sends = 2
                       /\ requests'[r].hdr = accessToken'
      ]_authVars

\* C1 witness: one refresh call was made and succeeded, and two requests
\* that had failed with 401 are on the wire again with the new token.
C1_Witness ==
    /\ Cardinality(OfKind("refresh")) = 1
    /\ \E f \in OfKind("refresh") :
          /\ requests[f].owner > 0 /\ requests[f].st = "ok"
          /\ \E w \in OfKind("api") \ {requests[f].owner} :
                \A r \in {w, requests[f].owner} :
                    /\ requests[r].st = "sent" /\ requests[r].sends = 2
                    /\ requests[r].retry
                    /\ requests[r].hdr = accessToken /\ accessToken = 2
    /\ ~isRefreshing /\ refreshSubscribers = << >>

\* C2: at most one call to the refresh endpoint is in flight.
C2_AtMostOneRefreshInFlight == Cardinality(RefreshInFlight) <= 1

\* C3: isRefreshing never stays true forever.  Only the answer to a request
\* on the wire can run the handler that clears the flag, so the flag must
\* never be set in a state where nothing is on the wire.
C3_RefreshingIsCleared == isRefreshing => Sent # {}

\* C4: when the interceptor's refresh call fails, the session is
\* invalidated, every queued request is rejected and the waiter queue is
\* empty.
C4_FailedRefreshRejectsWaiters ==
    [][ \A f \in 1..Len(requests) :
          ( /\ requests[f].kind = "refresh"
            /\ requests[f].owner > 0
            /\ requests[f].st = "sent"
            /\ requests'[f].st = "rejected" )
          => /\ accessToken' = 0 /\ refreshToken' = 0 /\ ~isAuthenticated'
             /\ refreshSubscribers' = << >>
             /\ \A w \in Range(refreshSubscribers) : requests'[w].st = "rejected"
      ]_authVars

\* ===================================================================
\*  Properties of the stream session coordinator
\* ===================================================================

\* what the UI sees of a message
View(m) == [id |-> m.id, role |-> m.role, content |-> m.content,
            isStreaming |-> m.isStreaming, error |-> m.error]

Views(ms) == [i \in DOMAIN ms |-> View(ms[i])]

\* This step is the delivery of the inbound message e.
DeliveryOf(e) ==
    /\ nEvents' = nEvents + 1
    /\ run' = Track(run, e)
    /\ ChatBecomes(Dispatch(ChatState, e))

StreamingMessages(ms) == {i \in DOMAIN ms : ms[i].isStreaming}

\* C5: stream correlation.  The delivery of a stream.chunk or stream.end
\* whose stream_id is not the active stream id changes neither the message
\* list, the accumulated text, the active stream id nor the typing flag,
\* and calls no completion callback.
C5_MismatchedEventIsNoOp ==
    [][ \A e \in Events :
          ( /\ e.type \in {"llm.stream.chunk", "llm.stream.end"}
            /\ e.stream_id # currentStreamId
            /\ DeliveryOf(e) )
          => /\ Views(messages') = Views(messages)
             /\ streamingMessageRef' = streamingMessageRef
             /\ currentStreamId' = currentStreamId
             /\ isTyping' = isTyping
             /\ completeCalls' = completeCalls
      ]_vars

\* C6: at most one active stream.  A stream.start delivered while a stream
\* is active is ignored, and at most one message has isStreaming = true.
C6_AtMostOneActiveStream ==
    [][ /\ \A e \in Events :
              ( /\ e.type = "llm.stream.start"
                /\ currentStreamId # Null
                /\ DeliveryOf(e) )
              => /\ Views(messages') = Views(messages)
                 /\ currentStreamId' = currentStreamId
        /\ Cardinality(StreamingMessages(messages')) <= 1
      ]_vars

\* C7: once start(s), chunk(s, c1) .. chunk(s, cn), end(s) have been
\* delivered in this order from the idle state, and nothing else, the
\* assistant message of s has the content c1 .. cn and isStreaming = false,
\* and the completion callback was called once, with it.
C7_StreamAssembled ==
    run.phase = "closed"
    => /\ \E i \in DOMAIN messages :
             View(messages[i]) =
                 [id |-> run.id, role |-> "assistant", content |-> run.text,
                  isStreaming |-> FALSE, error |-> FALSE]
       /\ completeCalls =
             << [id |-> run.id, content |-> run.text, isStreaming |-> FALSE] >>

\* C8: a stream.error delivered while a stream is active, whatever its
\* stream_id, leaves the coordinator idle, calls the error callback, marks
\* the in-progress message (isStreaming = false, error set) and leaves no
\* message with isStreaming = true.
C8_ErrorEndsTheStream ==
    [][ \A e \in Events :
          ( /\ e.type = "llm.stream.error"
            /\ currentStreamId # Null
            /\ DeliveryOf(e) )
          => /\ currentStreamId' = Null
             /\ ~isTyping'
             /\ errorCalls' = errorCalls + 1
             /\ \A i \in StreamingMessages(messages) :
                   ~messages'[i].isStreaming /\ messages'[i].error
             /\ StreamingMessages(messages') = {}
      ]_vars

\* C9: a finalized message (an assistant message whose end or error was
\* processed, or a user message) never changes again; only clearMessages
\* removes it.
C9_FinalizedIsImmutable ==
    [][ \A i \in DOMAIN messages :
          ~messages[i].isStreaming
          => \/ nUserCalls' # nUserCalls /\ messages' = << >>
             \/ /\ i \in DOMAIN messages'
                /\ View(messages'[i]) = View(messages[i])
      ]_vars

\* C10 as claimed: after an unclean close while stream s1 was active and a
\* later open, a stream.chunk of s1 does not change the content of the s1
\* message.
C10_LateChunkDiscarded ==
    [][ \A e \in Events :
          ( /\ e.type = "llm.stream.chunk"
            /\ drop.reopened /\ e.stream_id = drop.id
            /\ DeliveryOf(e) )
          => \A i \in DOMAIN messages :
                messages[i].id = drop.id
                => messages'[i].content = messages[i].content
      ]_vars

\* C10 as amended: the close, the reconnection timeout and the open leave
\* the session (active stream id, in-progress message, message list) and the
\* subscriptions as they are; and a stream.chunk of s1 delivered after the
\* reconnect, s1 being still the active stream of the subscribed handlers,
\* is appended to the accumulated text and shown by the s1 message.
C10_LateChunkAppended ==
    [][ /\ sockets' # sockets \/ timeouts' # timeouts
           => UNCHANGED <<chatVars, messageHandlersRef>>
        /\ \A e \in Events :
              ( /\ e.type = "llm.stream.chunk"
                /\ drop.reopened /\ e.stream_id = drop.id
                /\ currentStreamId = drop.id
                /\ streamingMessageRef.id = drop.id
                /\ messageHandlersRef = Handlers(drop.id)
                /\ DeliveryOf(e) )
              => /\ streamingMessageRef'.content =
                        streamingMessageRef.content \o <<e.content>>
                 /\ \A i \in DOMAIN messages :
                       messages[i].id = drop.id
                       => messages'[i].content = streamingMessageRef'.content
      ]_vars

\* C10 witness: the stream was cut by an unclean close, a socket has opened
\* since, and a chunk delivered after that has grown the message.
C10_Witness ==
    /\ drop.reopened /\ drop.late
    /\ currentStreamId = drop.id
    /\ \E i \in DOMAIN messages :
          /\ messages[i].id = drop.id
          /\ Len(messages[i].content) = Len(drop.text) + 1
          /\ messages[i].content = streamingMessageRef.content
    /\ \E w \in DOMAIN sockets : w > 1 /\ sockets[w].readyState = "OPEN"

\* ===================================================================
\*  Properties of the connection manager
\* ===================================================================

\* the sockets that are neither closed nor closing
Live(ss) == {w \in DOMAIN ss : ss[w].readyState \in {"CONNECTING", "OPEN"}}

\* C11: reconnect idempotence.  No socket is created, by a connect() call,
\* from a state that is Connecting or Connected, and at most one socket is
\* neither closed nor closing.
C11_ConnectIsIdempotent ==
    [][ /\ (state.isConnecting \/ state.isConnected)
           => Len(sockets') = Len(sockets)
        /\ Cardinality(Live(sockets')) <= 1
      ]_vars

\* C12: disconnect() tears down for good.  From its return until the next
\* connect() (wsRef is null exactly then) no reconnection timer is pending,
\* no heartbeat runs, no socket is connecting or open and the state is
\* Disconnected.
C12_DisconnectTearsDown ==
    wsRef = 0
    => /\ timeouts = {}
       /\ intervals = {}
       /\ Live(sockets) = {}
       /\ ~state.isConnected /\ ~state.isConnecting

\* C13: reconnection is bounded.  The attempt count never exceeds
\* maxReconnectAttempts, and once it has reached it, the close of a socket
\* that never opened (an unclean close) schedules no reconnection.
C13_ReconnectionIsBounded ==
    [][ /\ state'.reconnectAttempts <= maxReconnectAttempts
        /\ \A w \in DOMAIN sockets :
              ( /\ state.reconnectAttempts >= maxReconnectAttempts
                /\ ~sockets[w].opened
                /\ sockets[w].readyState # "CLOSED"
                /\ sockets'[w].readyState = "CLOSED" )
              => timeouts' = {} /\ reconnectTimeoutRef' = reconnectTimeoutRef
      ]_vars

\* the numbers of the messages written to a socket
Written == {outbox[i].msg : i \in DOMAIN outbox}

\* C14: send never queues.  A send() call made while the current socket is
\* absent or not open returns false and writes nothing; one that returns
\* true has written its message, once, to the current socket, which is
\* open; and a message whose send() returned false is never written.
C14_SendNeverQueues ==
    [][ /\ Len(returns') = Len(returns) + 1
           => LET k == Len(returns')
              IN  /\ returns'[k].open = CanSend
                  /\ ~CanSend => ~returns'[k].ok /\ outbox' = outbox
                  /\ returns'[k].ok
                     => /\ CanSend
                        /\ outbox' = Append(outbox, [msg |-> k, socket |-> wsRef])
        /\ \A k \in DOMAIN returns' :
              /\ ~returns'[k].ok => k \notin Written'
              /\ returns'[k].ok
                 => Cardinality({i \in DOMAIN outbox' : outbox'[i].msg = k}) = 1
      ]_vars

\* C14 witness: a send() refused while the socket was not open, then one
\* written to the open socket; the refused message was not written.
C14_Witness ==
    /\ returns = << [ok |-> FALSE, open |-> FALSE], [ok |-> TRUE, open |-> TRUE] >>
    /\ Written = {2}
    /\ CanSend

\* ===================================================================
\*  Properties of the dispatcher
\* ===================================================================

\* This step is the delivery of the inbound message e to the listeners.
Published(e) ==
    /\ DeliveryOf(e)
    /\ calls' = Publish(ChatState, e).calls

\* the calls the listeners registered in M for key are due for message e
Due(M, key, e) ==
    [i \in DOMAIN SelectSeq(M[key], LAMBDA h : h.fn \in Listeners) |->
        [fn   |-> SelectSeq(M[key], LAMBDA h : h.fn \in Listeners)[i].fn,
         key  |-> key,
         data |-> e]]

\* a listener registered for the type of e or for the wildcard throws
Throws(M, e) ==
    \E key \in {e.type, "*"} :
        \E i \in DOMAIN M[key] : M[key][i].fn = "throwingListener"

\* C15: dispatcher isolation.  When a listener registered for the type of
\* the message or for the wildcard throws, every listener registered for
\* the type and every wildcard listener is still called for the message.
C15_ThrowingListenerIsIsolated ==
    [][ \A e \in Events :
          ( Published(e) /\ Throws(messageHandlersRef, e) )
          => \A key \in {e.type, "*"} :
                Range(Due(messageHandlersRef, key, e)) \subseteq Range(calls')
      ]_vars

Errors(R) == {i \in DOMAIN R.calls : R.calls[i].fn = "onError"}

\* the stream as it was when its response arrived
AtResponse(R) ==
    [R EXCEPT !.phase = "reading", !.rest = R.payload, !.fullResponse = << >>,
              !.calls = << [fn |-> "onStart", arg |-> << >>] >>]

\* C17: decoder robustness.  Whatever the pieces the body was read in, a
\* stream that has returned without an error has made the calls, with the
\* arguments, that it makes when the body arrives in one read.
C17_ReadsDoNotMatter ==
    (stream.phase = "returned" /\ Errors(stream) = {})
    => stream.calls = Whole(AtResponse(stream)).calls

\* C18: cancellation.  Once cancel() has been called while the send() is in
\* flight, the request's signal is aborted, the manager is not active, and
\* the only callback still called is onError.
C18_CancelAbortsTheStream ==
    [][ (aborted # {} /\ stream.phase \in {"fetching", "reading"})
        => /\ stream.signal \in aborted
           /\ controller = 0
           /\ stream'.calls # stream.calls
              => /\ Len(stream'.calls) = Len(stream.calls) + 1
                 /\ stream'.calls[Len(stream'.calls)].fn = "onError"
      ]_vars

\* ss begins with s
StartsWith(ss, s) ==
    Len(s) <= Len(ss) /\ SubSeq(ss, 1, Len(s)) = s

C20_SecondFailureInvalidatesSession ==
    [][ \A q \in Sent :
           ( /\ requests[q].retry
             /\ requests[q].sends > 1
             /\ Answered(Handle401(AuthState, q)) )
           => /\ requests'[q].st = "rejected"
              /\ requests'[q].sends = requests[q].sends
              /\ Cardinality({r \in 1..Len(requests') : requests'[r].kind = "refresh"})
                    = Cardinality(OfKind("refresh"))
              /\ ~isAuthenticated'
              /\ user' = 0 /\ accessToken' = 0 /\ refreshToken' = 0
      ]_vars

\* the refresh requests made for request q by its interceptor
RefreshesOf(rs, q) ==
    {r \in 1..Len(rs) : rs[r].kind = "refresh" /\ rs[r].owner = q}

\* C21: authorization failure without a refresh token.  When a request not
\* yet retried is answered 401 and the store holds no refresh token, no
\* refresh request is made, the request is rejected, and the credentials
\* are cleared: user, access token and refresh token null, isAuthenticated
\* false.
C21_NoRefreshTokenInvalidatesSession ==
    [][ \A q \in Sent :
           ( /\ ~requests[q].retry
             /\ refreshToken = 0
             /\ Answered(Handle401(AuthState, q)) )
           => /\ requests'[q].st = "rejected"
              /\ requests'[q].sends = 1
              /\ \A r \in 1..Len(requests') :
                    requests'[r].kind = "refresh" => r \in OfKind("refresh")
              /\ user' = 0 /\ accessToken' = 0 /\ refreshToken' = 0
              /\ ~isAuthenticated'
      ]_vars

\* C21's case: an API request sent once with the session's token was
\* answered 401 after the session had lost its refresh token: it is
\* rejected, no refresh was made for it, and the credentials are cleared.
C21_Witness ==
    \E q \in OfKind("api") :
        /\ requests[q].st = "rejected"
        /\ requests[q].retry
        /\ requests[q].sends = 1
        /\ requests[q].hdr = 1
        /\ RefreshesOf(requests, q) = {}
        /\ user = 0 /\ accessToken = 0 /\ refreshToken = 0 /\ ~isAuthenticated

\* C22: at most one resubmission.  No request is sent more than twice.
C22_SentAtMostTwice ==
    \A q \in 1..Len(requests) : requests[q].sends <= 2

\* C22's case: a request was answered 401, sent again after the refresh,
\* answered 401 again and rejected after its second sending.
C22_Witness ==
    \E q \in OfKind("api") :
        /\ requests[q].sends = 2
        /\ requests[q].st = "rejected"
        /\ requests[q].retry

\* C28: logout is final.  Once logout() has cleared the credentials, no
\* step puts an access token back (the model has no login, register or
\* setTokens), whatever requests were in flight when it was called.
C28_LogoutIsFinal ==
    [][ (accessToken = 0 /\ OfKind("logout") # {}) => accessToken' = 0 ]_vars

\* C30: session invalidation terminates.  The handling of a 401 answer to
\* a logout request calls logout() no further: it makes no new logout
\* request.
C30_LogoutDoesNotRecur ==
    [][ \A q \in Sent :
           (requests[q].kind = "logout" /\ Answered(Handle401(AuthState, q)))
           => /\ Len(requests') = Len(requests)
              /\ requests'[q].st = "rejected"
      ]_vars

\* C29: heartbeat.  At most one heartbeat interval exists; an interval
\* that exists was started by the current socket, which is open; and the
\* current socket, while open, has its heartbeat: only its own close or
\* disconnect() stops it.
C29_OneHeartbeatWhileOpen ==
    /\ Cardinality(intervals) <= 1
    /\ \A w \in intervals : w = wsRef /\ sockets[w].readyState = "OPEN"
    /\ CanSend => wsRef \in intervals

\* ===================================================================
\*  Properties of the subscriptions
\* ===================================================================

\* C23: subscriptions outlive the sockets.  Only a subscribe or unsubscribe
\* call changes the registrations: connect(), disconnect(), a close, an
\* error and a reconnection leave them as they are; and a message delivered
\* on any socket is received by every listener that was registered for its
\* type or for the wildcard while the hook was disconnected.
C23_SubscriptionsOutliveSockets ==
    [][ /\ messageHandlersRef' # messageHandlersRef => unsubs' # unsubs
        /\ \A e \in ListenerEvents :
              Published(e)
              => \A i \in DOMAIN unsubs :
                    (unsubs[i].offline /\ unsubs[i].type \in {e.type, "*"})
                    => [fn |-> unsubs[i].fn, key |-> unsubs[i].type, data |-> e]
                          \in Range(calls')
      ]_vars

\* C23's case: a listener registered for the chunks while the hook was
\* disconnected has received a chunk on the second socket, the first one
\* having closed without ever opening.
C23_Witness ==
    /\ Len(unsubs) = 1 /\ unsubs[1].offline
    /\ unsubs[1].type = "llm.stream.chunk"
    /\ Len(sockets) = 2
    /\ sockets[1].readyState = "CLOSED" /\ ~sockets[1].opened
    /\ calls = << [fn |-> unsubs[1].fn, key |-> "llm.stream.chunk",
                   data |-> [type |-> "llm.stream.chunk", stream_id |-> "s1",
                             content |-> "a"]] >>

\* C24: unsubscribe.  The first call of a function returned by
\* subscribe(type, listener) removes that registration and leaves every
\* other one as it is; any further call of it changes nothing, also when
\* the same listener has been subscribed again since.
C24_UnsubscribeRemovesOnce ==
    [][ \A i \in DOMAIN unsubs :
           unsubs' = [unsubs EXCEPT ![i].called = @ + 1]
           => IF unsubs[i].called = 0
              THEN messageHandlersRef' =
                      [messageHandlersRef EXCEPT ![unsubs[i].type] =
                          SelectSeq(@, LAMBDA h : h.fn # unsubs[i].fn)]
              ELSE messageHandlersRef' = messageHandlersRef
      ]_vars

\* C25: malformed payloads.  The receipt of a payload that is not JSON
\* calls no listener (the coordinator's handlers change nothing and the
\* plain listeners receive no call), leaves the sockets, the connection
\* state and the registrations as they are; and a message received after
\* it is dispatched as any other.
C25_MalformedPayloadIsDropped ==
    [][ /\ dropped' # dropped
           => /\ UNCHANGED <<state, wsRef, sockets, reconnectTimeoutRef, timeouts,
                             heartbeatIntervalRef, intervals, messageHandlersRef>>
              /\ UNCHANGED chatVars
              /\ calls' = << >>
              /\ nEvents' = nEvents
        /\ (dropped # {} /\ nEvents' # nEvents)
           => \E e \in Events : DeliveryOf(e)
      ]_vars

\* C25's case: a malformed payload arrived first, on the open socket, then
\* a stream.start, which has opened its message; the socket is still open
\* and the hook connected.
C25_Witness ==
    /\ dropped = {0}
    /\ nEvents = 1
    /\ Len(messages) = 1 /\ messages[1].isStreaming
    /\ currentStreamId # Null
    /\ Len(sockets) = 1 /\ CanSend
    /\ state.isConnected /\ ~state.error /\ state.reconnectAttempts = 0

\* the line of an event of type "error"
ErrorLine == <<Prefix, "{", "!", "}">>

\* the terminal callbacks made, by their place among the calls
Terminal(R) ==
    {i \in DOMAIN R.calls : R.calls[i].fn \in {"onComplete", "onError"}}

\* C26: error events.  When the piece a read delivers begins with the line
\* of an event of type "error", the stream ends there with a failure: the
\* function returns, its last call is onError, and onComplete is not
\* called.
C26_ErrorEventFailsTheStream ==
    [][ ( /\ stream.phase = "reading"
          /\ stream'.rest # stream.rest
          /\ split(SubSeq(stream.rest, 1,
                          Len(stream.rest) - Len(stream'.rest)))[1] = ErrorLine )
        => /\ stream'.phase = "returned"
           /\ stream'.calls = Append(stream.calls, stream'.calls[Len(stream'.calls)])
           /\ stream'.calls[Len(stream'.calls)].fn = "onError"
      ]_vars

\* C27: one terminal callback.  A streamChatResponse call that has not
\* returned has called neither onComplete nor onError; one that has
\* returned has called exactly one of them, once, as its last call.
C27_ExactlyOneTerminalCallback ==
    IF stream.phase = "returned"
    THEN Terminal(stream) = {Len(stream.calls)}
    ELSE Terminal(stream) = {}

\* C27's case: a stream that delivered a token and then failed in a read
\* has called onStart, onToken and onError, and has returned.
C27_Witness ==
    /\ stream.phase = "returned"
    /\ Len(stream.calls) = 3
    /\ stream.calls[2].fn = "onToken"
    /\ stream.calls[3] = [fn |-> "onError", arg |-> <<"network">>]
    /\ stream.rest # << >>

====
